---- MODULE Spec2Model ----
(***************************************************************************)
(* distsync: a coordinator ("master") that places file chunks on storage   *)
(* nodes through a consistent hash ring, storage nodes, and the client.    *)
(* The model follows src/master/hash_ring.py, src/master/master_server.py, *)
(* src/node/node_server.py and src/client/client.py.                       *)
(***************************************************************************)
EXTENDS Integers, Sequences, FiniteSets, TLC

(***************************************************************************)
(* Bounds of the model.                                                    *)
(***************************************************************************)
\* virtual points per node on the ring (the coordinator configures 128)
VirtualPoints == 2
\* bytes per chunk (the client's DEFAULT_CHUNK_SIZE is 1 MiB)
ChunkSize == 2
\* longest file uploaded, in bytes
MaxFileLen == 3
\* hash layouts explored: salt \in 0..MaxSalt
MaxSalt == 1
\* the clock stops advancing at MaxTime seconds
MaxTime == 20
\* seconds the clock advances in one step
TickStep == 10
\* largest count passed to get_nodes_for_key by a direct ring lookup
MaxCount == 4
\* coordinator restarts in one behaviour
MaxRestarts == 1
\* distinct contents a file of a given length can have
MaxVersions == 1
\* UploadFile calls in one behaviour
MaxUploads == 1
\* DownloadFile calls in one behaviour
MaxDownloads == 1
\* UploadFile calls in one behaviour of the re-upload specification
MaxReuploads == 2
\* longest time one RegisterNode call of a starting node takes, in seconds
MaxCallTime == 1
\* times a running storage node stops in one behaviour
MaxStops == 1

(***************************************************************************)
(* Program constants.                                                      *)
(***************************************************************************)
\* _live_nodes: now - ts <= 10.0
HeartbeatWindow == 10
\* node serve(): register_deadline = time.time() + 30.0
RegisterWindow == 30
\* node serve(): time.sleep(1.0) between RegisterNode attempts
RetrySleep == 1

NodeIds == {"n1", "n2"}
RingNodeIds == {"n1", "n2", "n3"}
FileNames == {"f"}
\* the addresses a node may bind and register: <<node id, port>>
Ports == {1}
Addrs(n) == {<<n, p>> : p \in Ports}
\* the service of a node that is not running listens nowhere
Down == <<"down", 0>>
Replications == {1, 2}
None == "none"

Min(a, b) == IF a <= b THEN a ELSE b

\* Partial maps (Python dicts) are functions on a finite domain.
EmptyMap == <<>>
Put(m, k, v) == (k :> v) @@ m
Has(m, k) == k \in DOMAIN m

(***************************************************************************)
(* Strings.  f"{a}:{i}" is the pair <<a, i>>; two such strings are equal   *)
(* iff the pairs are.  NameOrd gives Python's order on the strings that    *)
(* occur ("" sorts first).                                                 *)
(***************************************************************************)
NameOrd(s) ==
    CASE s = "" -> 0
      [] s = "n1" -> 1
      [] s = "n2" -> 2
      [] s = "n3" -> 3
      [] s = "f" -> 4

VARIABLES
    salt,                  \* which layout the hash function has
    now,                   \* time.time(), in seconds
    replication,           \* Coordinator._replication
    ring,                  \* Coordinator._ring: [ring, nodes]
    node_address,          \* Coordinator._node_address
    node_last_heartbeat,   \* Coordinator._node_last_heartbeat
    file_index,            \* Coordinator._file_index
    metadata,              \* the metadata document on disk
    node_bind,             \* per node: the address its service listens on, or Down
    storage,               \* per node: chunk path -> payload
    up,                    \* the UploadFile handler
    dl,                    \* the DownloadFile handler
    lookup,                \* the last direct ring lookup: <<[key, count, result]>>
    reply,                 \* the Ack of the last RegisterNode or Heartbeat call
    env,                   \* what happened around the last placed upload
    restarts,              \* coordinator restarts so far
    stops,                 \* storage node stops so far
    lock,                  \* Coordinator._lock: the handler holding it, or None
    reg,                   \* a RegisterNode handler inside its locked block
    boot                   \* a storage node process: serve() of node_server

vars == <<salt, now, replication, ring, node_address, node_last_heartbeat,
          file_index, metadata, node_bind, storage, up, dl, lookup, reply,
          env, restarts, stops, lock, reg, boot>>

(***************************************************************************)
(* ConsistentHashRing (src/master/hash_ring.py)                            *)
(***************************************************************************)
\* SHA-256 of the string, read as an integer.  The model keeps what the ring
\* uses of it: a fixed injective function whose order on the strings is not
\* known in advance; salt selects one of several such orders.
hash_key(s) ==
    ((NameOrd(s[1]) * 5 + s[2]) * (2 * salt + 3) + salt) % 29

EmptyRing == [ring |-> <<>>, nodes |-> EmptyMap]

\* list.sort(key=lambda x: x[0]): stable, by hash only
RECURSIVE InsertByHash(_, _)
InsertByHash(sorted, e) ==
    IF sorted = <<>> THEN <<e>>
    ELSE IF sorted[Len(sorted)][1] <= e[1] THEN Append(sorted, e)
    ELSE Append(InsertByHash(SubSeq(sorted, 1, Len(sorted) - 1), e),
                sorted[Len(sorted)])

RECURSIVE SortByHash(_)
SortByHash(s) ==
    IF s = <<>> THEN <<>>
    ELSE InsertByHash(SortByHash(SubSeq(s, 1, Len(s) - 1)), s[Len(s)])

\* Variant of add_node without the early return for a known node (C10
\* rejects it).
add_node_again(r, node_id) ==
    LET points == [i \in 1..VirtualPoints |-> hash_key(<<node_id, i - 1>>)]
        appended == r.ring \o [i \in 1..VirtualPoints |-> <<points[i], node_id>>]
    IN  [ring |-> SortByHash(appended),
         nodes |-> Put(r.nodes, node_id, points)]

add_node(r, node_id) ==
    IF Has(r.nodes, node_id) THEN r
    ELSE LET points == [i \in 1..VirtualPoints |-> hash_key(<<node_id, i - 1>>)]
             appended == r.ring \o [i \in 1..VirtualPoints |-> <<points[i], node_id>>]
         IN  [ring |-> SortByHash(appended),
              nodes |-> Put(r.nodes, node_id, points)]

remove_node(r, node_id) ==
    IF ~Has(r.nodes, node_id) THEN r
    ELSE LET point_set == {r.nodes[node_id][i] : i \in DOMAIN r.nodes[node_id]}
             keep(e) == ~(e[2] = node_id /\ e[1] \in point_set)
         IN  [ring |-> SelectSeq(r.ring, keep),
              nodes |-> [n \in DOMAIN r.nodes \ {node_id} |-> r.nodes[n]]]

\* Python's tuple order on (hash, node id)
TupleLess(x, y) ==
    \/ x[1] < y[1]
    \/ x[1] = y[1] /\ NameOrd(x[2]) < NameOrd(y[2])

\* bisect.bisect_right(a, x)
RECURSIVE BisectLoop(_, _, _, _)
BisectLoop(a, x, lo, hi) ==
    IF lo < hi
    THEN LET mid == (lo + hi) \div 2
         IN  IF TupleLess(x, a[mid + 1])
             THEN BisectLoop(a, x, lo, mid)
             ELSE BisectLoop(a, x, mid + 1, hi)
    ELSE lo

bisect_right(a, x) == BisectLoop(a, x, 0, Len(a))

\* The while loop of get_nodes_for_key.  A walk that has gone once round the
\* ring without filling `selected` never will: that is a loop that does not
\* terminate, reported as the result <<"DIVERGES">>.
RECURSIVE Walk(_, _, _, _, _)
Walk(r, want, i, selected, steps) ==
    IF ~(Len(selected) < want) THEN selected
    ELSE IF steps >= Len(r.ring) THEN <<"DIVERGES">>
    ELSE LET pos == i % Len(r.ring)
             node_id == r.ring[pos + 1][2]
             seen == {selected[j] : j \in DOMAIN selected}
         IN  Walk(r, want, i + 1,
                  IF node_id \notin seen THEN Append(selected, node_id) ELSE selected,
                  steps + 1)

\* Variant of get_nodes_for_key that does not cap count at the number of
\* registered nodes (C7 rejects it).
get_nodes_for_key_uncapped(r, key, count) ==
    IF r.ring = <<>> THEN <<>>
    ELSE LET key_hash == hash_key(key)
             idx == bisect_right(r.ring, <<key_hash, "">>)
         IN  Walk(r, count, idx, <<>>, 0)

get_nodes_for_key(r, key, count) ==
    IF r.ring = <<>> THEN <<>>
    ELSE LET key_hash == hash_key(key)
             idx == bisect_right(r.ring, <<key_hash, "">>)
         IN  Walk(r, Min(count, Cardinality(DOMAIN r.nodes)), idx, <<>>, 0)

nodes(r) == DOMAIN r.nodes

(***************************************************************************)
(* Client (src/client/client.py)                                           *)
(***************************************************************************)
\* a file on the client's disk: <<directory, base name>>
Paths == {<<"d", f>> : f \in FileNames}
basename(path) == path[Len(path)]

\* the bytes of the file: version v of a file of len bytes
FileBytes(v, len) == [i \in 1..len |-> 10 * v + i]
Files == {FileBytes(v, len) : v \in 1..MaxVersions, len \in 0..MaxFileLen}

\* Variant of Slice that loses the last byte of every chunk (C1 rejects it).
Slice_short(data, off, size) ==
    SubSeq(data, off + 1, Min(off + size, Len(data)) - 1)

\* data[off: off + chunk_size]
Slice(data, off, size) == SubSeq(data, off + 1, Min(off + size, Len(data)))

stream_file_chunks(path, data, chunk_size) ==
    LET total_chunks == (Len(data) + chunk_size - 1) \div chunk_size
    IN  [i \in 1..total_chunks |->
            [filename |-> basename(path),
             data |-> Slice(data, (i - 1) * chunk_size, chunk_size),
             chunk_id |-> i - 1,
             total_chunks |-> total_chunks]]

\* b"".join(chunks) of download()
RECURSIVE Join(_)
Join(parts) ==
    IF parts = <<>> THEN <<>> ELSE parts[1].data \o Join(Tail(parts))

(***************************************************************************)
(* Storage node (src/node/node_server.py)                                  *)
(***************************************************************************)
\* filename.replace("/", "_") + "." + chunk_id + ".chunk"
chunk_path(filename, chunk_id) == <<filename, chunk_id>>

\* a call to `address` reaches node n iff n's service listens there
Reachable(bind, n, address) == bind[n] = address

\* NodeServicer.StoreChunk: the node's storage after the write
StoreChunk(store, chunk) ==
    Put(store, chunk_path(chunk.filename, chunk.chunk_id), chunk.data)

\* NodeServicer.GetChunk: <<the chunk returned>>, or <<>> for NOT_FOUND
GetChunk(store, filename, chunk_id) ==
    IF ~Has(store, chunk_path(filename, chunk_id)) THEN <<>>
    ELSE <<[filename |-> filename,
            data |-> store[chunk_path(filename, chunk_id)],
            chunk_id |-> chunk_id,
            total_chunks |-> 0]>>

(***************************************************************************)
(* Coordinator (src/master/master_server.py)                               *)
(***************************************************************************)
\* json.dumps of {"nodes": ..., "files": ...}: each object as its set of
\* key/value members; json.loads reads the members back into dicts.
json_object(m) == {<<k, m[k]>> : k \in DOMAIN m}
json_dict(members) ==
    [k \in {kv[1] : kv \in members} |-> (CHOOSE kv \in members : kv[1] = k)[2]]

json_dumps(address, files) ==
    [kind |-> "json",
     nodes |-> json_object(address),
     files |-> json_object([f \in DOMAIN files |-> json_object(files[f])])]

json_loads(text) ==
    [nodes |-> json_dict(text.nodes),
     files |-> [f \in DOMAIN json_dict(text.files) |->
                   json_dict(json_dict(text.files)[f])]]

\* Variant of _save_metadata that leaves the file index out of the document
\* (C8 rejects it).
save_metadata_nodes_only(address, files) == json_dumps(address, EmptyMap)

\* Coordinator._save_metadata: the document written
save_metadata(address, files) == json_dumps(address, files)

\* Variant of _live_nodes that counts every node with a heartbeat entry as
\* live (C6 rejects it).
live_nodes_all(heartbeat, t) == DOMAIN heartbeat

\* Coordinator._live_nodes at time t
live_nodes(heartbeat, t) ==
    {nid \in DOMAIN heartbeat : t - heartbeat[nid] <= HeartbeatWindow}

\* the loop of _load_metadata over data["nodes"], on the ring
RECURSIVE AddAll(_, _)
AddAll(r, ids) ==
    IF ids = {} THEN r
    ELSE LET n == CHOOSE x \in ids : \A y \in ids : NameOrd(x) <= NameOrd(y)
         IN  AddAll(add_node(r, n), ids \ {n})

\* serve() and Coordinator.__init__ with _load_metadata: the document found
\* on disk after serve()'s check, and the data loaded from it
DocAtStart(doc) ==
    IF doc.kind = "absent" THEN save_metadata(EmptyMap, EmptyMap) ELSE doc

load_metadata(doc) ==
    IF doc.kind = "corrupt" THEN [nodes |-> EmptyMap, files |-> EmptyMap]
    ELSE json_loads(doc)

Active == {"chunk", "cand", "fetch"}

IdleUpload ==
    [pc |-> "idle", n |-> 0, data |-> <<>>, chunks |-> <<>>, filename |-> None,
     total_chunks |-> 0, placements |-> EmptyMap, pending |-> {},
     sent |-> {}, status |-> None, epoch |-> 0]

\* the detail string of context.abort: its text and, in f"chunk {cid}
\* unavailable", the chunk index
Detail(text, chunk) == [text |-> text, chunk |-> chunk]
NoDetail == Detail(None, -1)

IdleDownload ==
    [pc |-> "idle", n |-> 0, filename |-> None, total_chunks |-> 0, live_nodes |-> {},
     cid |-> 0, node_ids |-> <<>>, k |-> 0, address |-> Down, out |-> <<>>,
     code |-> None, detail |-> NoDetail, failed |-> {}, follows |-> FALSE]

\* one StoreChunk call of the fan-out: the chunk and the address the stub of
\* store_to_node was opened on
Sent(node_id, cid, address) == [node_id |-> node_id, chunk_id |-> cid, address |-> address]

\* no RegisterNode handler is inside its locked block
IdleRegister == [pc |-> "idle", node_id |-> None, address |-> Down, i |-> 0]

\* the storage node process has not been launched
NotBooted ==
    [pc |-> "off", node_id |-> None, bind |-> Down, t |-> 0, deadline |-> 0,
     last_error |-> None, acked |-> FALSE]

\* pb.Ack(success, message)
Ack(success, message) == [success |-> success, message |-> message]

\* a finished RegisterNode or Heartbeat call: the request, whether the node
\* was registered when the call arrived, and the Ack returned
Replied(rpc, node_id, address, ack) ==
    [rpc |-> rpc, node_id |-> node_id, address |-> address,
     known |-> Has(node_address, node_id), ack |-> ack]
NoReply ==
    [rpc |-> None, node_id |-> None, address |-> Down, known |-> FALSE,
     ack |-> Ack(FALSE, None)]

\* the Ack that RegisterNode returns
RegisterNodeAck(node_id, address) == Ack(TRUE, "registered")

\* the Ack that Heartbeat returns
HeartbeatAck(node_id) ==
    IF Has(node_address, node_id) THEN Ack(TRUE, "ok")
    ELSE Ack(FALSE, "unknown node")

(***************************************************************************)
(* env: what has happened since the placement of the last placed upload.   *)
(*   calm   - every registered node was live at every moment, no           *)
(*            registered node became reachable or unreachable, the         *)
(*            coordinator lost no state and no running handler was cut by  *)
(*            a restart                                                    *)
(*   joined - the ring's membership changed                                *)
(***************************************************************************)
AllLive(address, heartbeat, t) ==
    \A n \in DOMAIN address : n \in live_nodes(heartbeat, t)

Observed(e) ==
    [calm |-> /\ e.calm
              /\ AllLive(node_address', node_last_heartbeat', now')
              /\ \A n \in DOMAIN node_address :
                    /\ Has(node_address', n)
                    /\ Reachable(node_bind', n, node_address'[n])
                          = Reachable(node_bind, n, node_address[n])
              /\ \A f \in DOMAIN file_index : Has(file_index', f),
     joined |-> e.joined \/ nodes(ring') # nodes(ring)]

Init ==
    /\ salt \in 0..MaxSalt
    /\ replication \in Replications
    /\ now = 0
    /\ ring = EmptyRing
    /\ node_address = EmptyMap
    /\ node_last_heartbeat = EmptyMap
    /\ file_index = EmptyMap
    /\ metadata = save_metadata(EmptyMap, EmptyMap)
    /\ node_bind = [n \in NodeIds |-> Down]
    /\ storage = [n \in NodeIds |-> EmptyMap]
    /\ up = IdleUpload
    /\ dl = IdleDownload
    /\ lookup = <<>>
    /\ reply = NoReply
    /\ env = [calm |-> FALSE, joined |-> FALSE]
    /\ restarts = 0
    /\ stops = 0
    /\ lock = None
    /\ reg = IdleRegister
    /\ boot = NotBooted

\* Coordinator.RegisterNode
RegisterNode(node_id, address) ==
    /\ node_address' = Put(node_address, node_id, address)
    /\ node_last_heartbeat' = Put(node_last_heartbeat, node_id, now)
    /\ ring' = IF node_id \notin nodes(ring) THEN add_node(ring, node_id) ELSE ring
    /\ metadata' = save_metadata(node_address', file_index)
    /\ UNCHANGED <<salt, now, replication, file_index, node_bind, storage,
                   up, dl, lookup, restarts, stops>>
    /\ env' = Observed(env)

\* Variant of Heartbeat that records the timestamp without looking the node
\* up (C9 rejects it).
Heartbeat_upsert(node_id) ==
    /\ node_last_heartbeat' = Put(node_last_heartbeat, node_id, now)
    /\ UNCHANGED <<salt, now, replication, ring, node_address, file_index,
                   metadata, node_bind, storage, up, dl, lookup, restarts, stops>>
    /\ env' = Observed(env)

\* Coordinator.Heartbeat
Heartbeat(node_id) ==
    /\ node_last_heartbeat' =
           IF Has(node_address, node_id)
           THEN Put(node_last_heartbeat, node_id, now)
           ELSE node_last_heartbeat
    /\ UNCHANGED <<salt, now, replication, ring, node_address, file_index,
                   metadata, node_bind, storage, up, dl, lookup, restarts, stops>>
    /\ env' = Observed(env)

\* Coordinator.UploadFile up to the end of the placement block: the status
\* message returned (None when the placement succeeded) and the placements
UploadPlacement(chunks) ==
    IF chunks = <<>> THEN [message |-> "no data", placements |-> EmptyMap]
    ELSE LET filename == chunks[1].filename
             live == live_nodes(node_last_heartbeat, now)
             place(chunk) ==
                 SelectSeq(get_nodes_for_key(ring, <<filename, chunk.chunk_id>>,
                                             replication),
                           LAMBDA n : n \in live)
         IN  IF live = {}
             THEN [message |-> "no live nodes", placements |-> EmptyMap]
             ELSE IF \E i \in DOMAIN chunks : place(chunks[i]) = <<>>
             THEN [message |-> "no live nodes for chunk", placements |-> EmptyMap]
             ELSE [message |-> None,
                   placements |-> [cid \in {chunks[i].chunk_id : i \in DOMAIN chunks} |->
                       place(CHOOSE c \in {chunks[i] : i \in DOMAIN chunks} :
                                 c.chunk_id = cid)]]

\* Variant of UploadFile that enters the file in the file index before the
\* placement is computed (C18 rejects it).
UploadFile_indexing(path, data) ==
    /\ up.pc = "idle"
    /\ LET chunks == stream_file_chunks(path, data, ChunkSize)
           res == UploadPlacement(chunks)
       IN  /\ up' = IF res.message # None
                    THEN [IdleUpload EXCEPT !.n = up.n + 1, !.data = data,
                                            !.chunks = chunks,
                                            !.status = res.message]
                    ELSE [pc |-> "fanout", n |-> up.n + 1, data |-> data,
                          chunks |-> chunks,
                          filename |-> chunks[1].filename,
                          total_chunks |-> IF chunks[1].total_chunks # 0
                                           THEN chunks[1].total_chunks
                                           ELSE Len(chunks),
                          placements |-> res.placements,
                          pending |-> UNION {{<<res.placements[cid][j], cid>> :
                                                j \in DOMAIN res.placements[cid]} :
                                             cid \in DOMAIN res.placements},
                          sent |-> {}, status |-> None, epoch |-> 0]
           /\ dl' = [dl EXCEPT !.follows = FALSE]
           /\ file_index' = IF chunks = <<>> THEN file_index
                            ELSE Put(file_index, chunks[1].filename,
                                     [total_chunks |-> Len(chunks)])
           /\ UNCHANGED <<salt, now, replication, ring, node_address,
                          node_last_heartbeat, metadata,
                          node_bind, storage, lookup, restarts, stops>>
           /\ env' = IF res.message = None
                     THEN Observed([calm |-> TRUE, joined |-> FALSE])
                     ELSE Observed(env)

\* Coordinator.UploadFile: the stream is buffered and the placement computed
UploadFile(path, data) ==
    /\ up.pc = "idle"
    /\ LET chunks == stream_file_chunks(path, data, ChunkSize)
           res == UploadPlacement(chunks)
       IN  /\ up' = IF res.message # None
                    THEN [IdleUpload EXCEPT !.n = up.n + 1, !.data = data,
                                            !.chunks = chunks,
                                            !.status = res.message]
                    ELSE [pc |-> "fanout", n |-> up.n + 1, data |-> data,
                          chunks |-> chunks,
                          filename |-> chunks[1].filename,
                          total_chunks |-> IF chunks[1].total_chunks # 0
                                           THEN chunks[1].total_chunks
                                           ELSE Len(chunks),
                          placements |-> res.placements,
                          pending |-> UNION {{<<res.placements[cid][j], cid>> :
                                                j \in DOMAIN res.placements[cid]} :
                                             cid \in DOMAIN res.placements},
                          sent |-> {}, status |-> None, epoch |-> 0]
           /\ dl' = [dl EXCEPT !.follows = FALSE]
           /\ UNCHANGED <<salt, now, replication, ring, node_address,
                          node_last_heartbeat, file_index, metadata,
                          node_bind, storage, lookup, restarts, stops>>
           /\ env' = IF res.message = None
                     THEN Observed([calm |-> TRUE, joined |-> FALSE])
                     ELSE Observed(env)

\* Variant of store_to_node in which a failed StoreChunk fails the upload
\* (C4 rejects it).
StoreToNode_strict(node_id, cid) ==
    /\ up.pc = "fanout"
    /\ <<node_id, cid>> \in up.pending
    /\ LET address == node_address[node_id]
           chunk == CHOOSE c \in {up.chunks[i] : i \in DOMAIN up.chunks} :
                        c.chunk_id = cid
           stored == Reachable(node_bind, node_id, address)
       IN  /\ storage' = IF stored
                         THEN [storage EXCEPT ![node_id] = StoreChunk(@, chunk)]
                         ELSE storage
           /\ up' = IF stored
                    THEN [up EXCEPT !.pending = @ \ {<<node_id, cid>>},
                                    !.sent = @ \cup {Sent(node_id, cid, address)}]
                    ELSE [up EXCEPT !.pc = "idle", !.status = "store failed",
                                    !.placements = EmptyMap, !.pending = {},
                                    !.sent = {}]
    /\ UNCHANGED <<salt, now, replication, ring, node_address,
                   node_last_heartbeat, file_index, metadata, node_bind,
                   dl, lookup, restarts, stops>>
    /\ env' = Observed(env)

\* Variant of store_to_node that looks the replica up in the ring again when
\* the chunk is sent (C16 rejects it).
StoreToNode_rehashed(node_id, cid) ==
    /\ up.pc = "fanout"
    /\ <<node_id, cid>> \in up.pending
    /\ LET target == get_nodes_for_key(ring, <<up.filename, cid>>, 1)[1]
           address == node_address[target]
           chunk == CHOOSE c \in {up.chunks[i] : i \in DOMAIN up.chunks} :
                        c.chunk_id = cid
           stored == Reachable(node_bind, target, address)
       IN  /\ storage' = IF stored
                         THEN [storage EXCEPT ![target] = StoreChunk(@, chunk)]
                         ELSE storage
           /\ up' = [up EXCEPT !.pending = @ \ {<<node_id, cid>>},
                               !.sent = @ \cup {Sent(target, cid, address)}]
    /\ UNCHANGED <<salt, now, replication, ring, node_address,
                   node_last_heartbeat, file_index, metadata, node_bind,
                   dl, lookup, restarts, stops>>
    /\ env' = Observed(env)

\* store_to_node(node_id, chunk), one task of the upload's worker pool
StoreToNode(node_id, cid) ==
    /\ up.pc = "fanout"
    /\ <<node_id, cid>> \in up.pending
    /\ LET address == node_address[node_id]
           chunk == CHOOSE c \in {up.chunks[i] : i \in DOMAIN up.chunks} :
                        c.chunk_id = cid
           stored == Reachable(node_bind, node_id, address)
       IN  /\ storage' = IF stored
                         THEN [storage EXCEPT ![node_id] = StoreChunk(@, chunk)]
                         ELSE storage
           /\ up' = [up EXCEPT !.pending = @ \ {<<node_id, cid>>},
                               !.sent = @ \cup {Sent(node_id, cid, address)}]
    /\ UNCHANGED <<salt, now, replication, ring, node_address,
                   node_last_heartbeat, file_index, metadata, node_bind,
                   dl, lookup, restarts, stops>>
    /\ env' = Observed(env)

\* Variant of the end of UploadFile that does not wait for the pool's tasks
\* (C17 rejects it).
UploadFinish_early ==
    /\ up.pc = "fanout"
    /\ file_index' = Put(file_index, up.filename, [total_chunks |-> up.total_chunks])
    /\ metadata' = save_metadata(node_address, file_index')
    /\ up' = [up EXCEPT !.pc = "idle", !.status = "ok", !.placements = EmptyMap,
                        !.pending = {}, !.sent = {}, !.epoch = restarts]
    /\ UNCHANGED <<salt, now, replication, ring, node_address,
                   node_last_heartbeat, node_bind, storage, dl, lookup,
                   restarts, stops>>
    /\ env' = Observed(env)

\* Coordinator.UploadFile after the fan-out: the file index entry and the save
UploadFinish ==
    /\ up.pc = "fanout"
    /\ up.pending = {}
    /\ file_index' = Put(file_index, up.filename, [total_chunks |-> up.total_chunks])
    /\ metadata' = save_metadata(node_address, file_index')
    /\ up' = [up EXCEPT !.pc = "idle", !.status = "ok", !.placements = EmptyMap,
                        !.sent = {}, !.epoch = restarts]
    /\ UNCHANGED <<salt, now, replication, ring, node_address,
                   node_last_heartbeat, node_bind, storage, dl, lookup,
                   restarts, stops>>
    /\ env' = Observed(env)

\* context.abort(code, detail)
Abort(d, code, detail) == [d EXCEPT !.pc = "aborted", !.code = code, !.detail = detail]

\* Coordinator.DownloadFile: the first locked block
DownloadFile(filename) ==
    /\ dl.pc \notin Active
    /\ dl.n < MaxDownloads
    /\ LET d == [IdleDownload EXCEPT
                    !.n = dl.n + 1,
                    !.filename = filename,
                    !.follows = (up.pc = "idle" /\ up.status # None)]
           live == live_nodes(node_last_heartbeat, now)
       IN  dl' = IF ~Has(file_index, filename)
                 THEN Abort(d, "NOT_FOUND", Detail("file not found", -1))
                 ELSE IF live = {}
                 THEN Abort(d, "FAILED_PRECONDITION", Detail("no live nodes", -1))
                 ELSE [d EXCEPT !.total_chunks = file_index[filename].total_chunks,
                                !.live_nodes = live,
                                !.pc = IF file_index[filename].total_chunks = 0
                                       THEN "done" ELSE "chunk"]
    /\ UNCHANGED <<salt, now, replication, ring, node_address,
                   node_last_heartbeat, file_index, metadata, node_bind,
                   storage, up, lookup, restarts, stops>>
    /\ env' = Observed(env)

\* Variant of the candidate loop that goes on to the next chunk when the
\* candidates are exhausted (C5 rejects it).
NextCandidate_skip(d) ==
    IF d.k + 1 > Len(d.node_ids)
    THEN [d EXCEPT !.cid = @ + 1,
                   !.pc = IF d.cid + 1 = d.total_chunks THEN "done" ELSE "chunk"]
    ELSE [d EXCEPT !.k = @ + 1, !.pc = "cand"]

\* the download moves to its next candidate; when none is left the for loop
\* ends with sent = False and the call aborts
NextCandidate(d) ==
    IF d.k + 1 > Len(d.node_ids)
    THEN Abort(d, "UNAVAILABLE", Detail("chunk unavailable", d.cid))
    ELSE [d EXCEPT !.k = @ + 1, !.pc = "cand"]

\* DownloadFile: node_ids = self._ring.get_nodes_for_key(key, count)
DownloadCandidates ==
    /\ dl.pc = "chunk"
    /\ LET node_ids == get_nodes_for_key(ring, <<dl.filename, dl.cid>>, replication)
       IN  dl' = NextCandidate([dl EXCEPT !.node_ids = node_ids, !.k = 0,
                                          !.failed = {}])
    /\ UNCHANGED <<salt, now, replication, ring, node_address,
                   node_last_heartbeat, file_index, metadata, node_bind,
                   storage, up, lookup, restarts, stops>>
    /\ env' = Observed(env)

\* DownloadFile: the locked block of one candidate
DownloadPick ==
    /\ dl.pc = "cand"
    /\ LET nid == dl.node_ids[dl.k]
       IN  dl' = IF nid \notin dl.live_nodes
                 THEN NextCandidate(dl)
                 ELSE [dl EXCEPT !.address = node_address[nid], !.pc = "fetch"]
    /\ UNCHANGED <<salt, now, replication, ring, node_address,
                   node_last_heartbeat, file_index, metadata, node_bind,
                   storage, up, lookup, restarts, stops>>
    /\ env' = Observed(env)

\* the outcome of stub.GetChunk at the candidate: <<the chunk>>, or <<>> when
\* the call raises (the node is unreachable or lacks the chunk)
FetchResult(d) ==
    LET nid == d.node_ids[d.k]
    IN  IF Reachable(node_bind, nid, d.address)
        THEN GetChunk(storage[nid], d.filename, d.cid)
        ELSE <<>>

\* Variant of the except branch that gives up at the first failed candidate
\* (C3 rejects it).
Fetched_abort(d, got) ==
    IF got # <<>>
    THEN [d EXCEPT !.out = Append(@, got[1]),
                   !.cid = @ + 1,
                   !.pc = IF d.cid + 1 = d.total_chunks THEN "done" ELSE "chunk"]
    ELSE Abort([d EXCEPT !.failed = @ \cup {d.node_ids[d.k]}],
               "UNAVAILABLE", Detail("chunk unavailable", d.cid))

\* Variant of the try block without the `break` after the yield: the next
\* candidate is asked for the same chunk (C20 rejects it).
Fetched_again(d, got) ==
    IF got # <<>>
    THEN IF d.k + 1 > Len(d.node_ids)
         THEN [d EXCEPT !.out = Append(@, got[1]),
                        !.cid = @ + 1,
                        !.pc = IF d.cid + 1 = d.total_chunks THEN "done" ELSE "chunk"]
         ELSE [d EXCEPT !.out = Append(@, got[1]), !.k = @ + 1, !.pc = "cand"]
    ELSE NextCandidate([d EXCEPT !.failed = @ \cup {d.node_ids[d.k]}])

\* DownloadFile: the GetChunk call, the yield, or the except branch
Fetched(d, got) ==
    IF got # <<>>
    THEN [d EXCEPT !.out = Append(@, got[1]),
                   !.cid = @ + 1,
                   !.pc = IF d.cid + 1 = d.total_chunks THEN "done" ELSE "chunk"]
    ELSE NextCandidate([d EXCEPT !.failed = @ \cup {d.node_ids[d.k]}])

DownloadFetch ==
    /\ dl.pc = "fetch"
    /\ dl' = Fetched(dl, FetchResult(dl))
    /\ UNCHANGED <<salt, now, replication, ring, node_address,
                   node_last_heartbeat, file_index, metadata, node_bind,
                   storage, up, lookup, restarts, stops>>
    /\ env' = Observed(env)

\* the coordinator process is stopped and started again: serve() and
\* Coordinator.__init__; the handlers that were running are cut.  While the
\* process is down the metadata document is left intact, deleted ("absent")
\* or damaged ("corrupt").
Restart(found) ==
    /\ restarts < MaxRestarts
    /\ restarts' = restarts + 1
    /\ LET doc == IF found = "intact" THEN metadata ELSE [kind |-> found]
           data == load_metadata(DocAtStart(doc))
       IN  /\ metadata' = DocAtStart(doc)
           /\ file_index' = data.files
           /\ node_address' = data.nodes
           /\ ring' = AddAll(EmptyRing, DOMAIN data.nodes)
           /\ node_last_heartbeat' = [n \in DOMAIN data.nodes |-> now]
    /\ up' = IF up.pc = "fanout"
             THEN [up EXCEPT !.pc = "idle", !.status = "CONNECTION_LOST",
                             !.placements = EmptyMap, !.pending = {}, !.sent = {}]
             ELSE up
    /\ dl' = IF dl.pc \in Active
             THEN Abort(dl, "CONNECTION_LOST", NoDetail)
             ELSE dl
    /\ UNCHANGED <<salt, now, replication, node_bind, storage, lookup, stops>>
    /\ env' = Observed([env EXCEPT !.calm = @ /\ up.pc # "fanout" /\ dl.pc \notin Active])

(***************************************************************************)
(* Environment                                                             *)
(***************************************************************************)
Tick ==
    /\ now + TickStep <= MaxTime
    /\ now' = now + TickStep
    /\ UNCHANGED <<salt, replication, ring, node_address, node_last_heartbeat,
                   file_index, metadata, node_bind, storage, up, dl,
                   lookup, restarts, stops>>
    /\ env' = Observed(env)

\* a node's service starts listening on an address (serve() of node_server)
NodeStart(n, address) ==
    /\ node_bind[n] = Down
    /\ node_bind' = [node_bind EXCEPT ![n] = address]
    /\ UNCHANGED <<salt, now, replication, ring, node_address,
                   node_last_heartbeat, file_index, metadata, storage,
                   up, dl, lookup, restarts, stops>>
    /\ env' = Observed(env)

\* a node's service stops; its storage directory stays
NodeStop(n) ==
    /\ node_bind[n] # Down
    /\ stops < MaxStops
    /\ stops' = stops + 1
    /\ node_bind' = [node_bind EXCEPT ![n] = Down]
    /\ UNCHANGED <<salt, now, replication, ring, node_address,
                   node_last_heartbeat, file_index, metadata, storage,
                   up, dl, lookup, restarts>>
    /\ env' = Observed(env)

Next ==
    \/ \E n \in NodeIds : \E a \in Addrs(n) : RegisterNode(n, a) /\ UNCHANGED <<reply, lock, reg, boot>>
    \/ \E n \in NodeIds : Heartbeat(n) /\ UNCHANGED <<reply, lock, reg, boot>>
    \/ \E path \in Paths : \E data \in Files :
          up.n < MaxUploads /\ UploadFile(path, data) /\ UNCHANGED <<reply, lock, reg, boot>>
    \/ \E n \in NodeIds : \E cid \in 0..MaxFileLen : StoreToNode(n, cid) /\ UNCHANGED <<reply, lock, reg, boot>>
    \/ UploadFinish /\ UNCHANGED <<reply, lock, reg, boot>>
    \/ \E f \in FileNames : DownloadFile(f) /\ UNCHANGED <<reply, lock, reg, boot>>
    \/ DownloadCandidates /\ UNCHANGED <<reply, lock, reg, boot>>
    \/ DownloadPick /\ UNCHANGED <<reply, lock, reg, boot>>
    \/ DownloadFetch /\ UNCHANGED <<reply, lock, reg, boot>>
    \/ \E found \in {"intact", "absent", "corrupt"} : Restart(found) /\ UNCHANGED <<reply, lock, reg, boot>>
    \/ Tick /\ UNCHANGED <<reply, lock, reg, boot>>
    \/ \E n \in NodeIds : \E a \in Addrs(n) : NodeStart(n, a) /\ UNCHANGED <<reply, lock, reg, boot>>
    \/ \E n \in NodeIds : NodeStop(n) /\ UNCHANGED <<reply, lock, reg, boot>>

Spec == Init /\ [][Next]_vars

(***************************************************************************)
(* The ring on its own: any sequence of add_node, remove_node and lookups. *)
(***************************************************************************)
RingKeys == {<<name, i>> : name \in RingNodeIds \cup FileNames, i \in 0..VirtualPoints}

RingFrame ==
    UNCHANGED <<salt, now, replication, node_address, node_last_heartbeat,
                file_index, metadata, node_bind, storage, up, dl,
                reply, env, restarts, stops, lock, reg, boot>>

RingAdd(n) == ring' = add_node(ring, n) /\ lookup' = <<>> /\ RingFrame

RingRemove(n) == ring' = remove_node(ring, n) /\ lookup' = <<>> /\ RingFrame

RingLookup(key, count) ==
    /\ lookup' = <<[key |-> key, count |-> count,
                   result |-> get_nodes_for_key(ring, key, count)]>>
    /\ ring' = ring
    /\ RingFrame

RingNext ==
    \/ \E n \in RingNodeIds : RingAdd(n)
    \/ \E n \in RingNodeIds : RingRemove(n)
    \/ \E key \in RingKeys : \E count \in 0..MaxCount : RingLookup(key, count)

RingSpec == Init /\ [][RingNext]_vars

(***************************************************************************)
(* The membership RPCs with their replies: RegisterNode and Heartbeat      *)
(* calls from any node at any address, around uploads, the passing of time *)
(* and restarts of the coordinator.                                        *)
(***************************************************************************)
MemberPorts == {1, 2}
MemberAddrs(n) == {<<n, p>> : p \in MemberPorts}

MemberNext ==
    \/ \E n \in NodeIds : \E a \in MemberAddrs(n) :
          RegisterNode(n, a)
          /\ reply' = Replied("RegisterNode", n, a, RegisterNodeAck(n, a))
          /\ UNCHANGED <<lock, reg, boot>>
    \/ \E n \in NodeIds :
          Heartbeat(n)
          /\ reply' = Replied("Heartbeat", n, Down, HeartbeatAck(n))
          /\ UNCHANGED <<lock, reg, boot>>
    \/ \E path \in Paths : \E data \in Files :
          up.n < MaxUploads /\ UploadFile(path, data) /\ reply' = NoReply
          /\ UNCHANGED <<lock, reg, boot>>
    \/ \E n \in NodeIds : \E cid \in 0..MaxFileLen :
          StoreToNode(n, cid) /\ reply' = NoReply
          /\ UNCHANGED <<lock, reg, boot>>
    \/ UploadFinish /\ reply' = NoReply
          /\ UNCHANGED <<lock, reg, boot>>
    \/ \E found \in {"intact", "absent", "corrupt"} :
          Restart(found) /\ reply' = NoReply
          /\ UNCHANGED <<lock, reg, boot>>
    \/ Tick /\ reply' = NoReply
          /\ UNCHANGED <<lock, reg, boot>>

MemberSpec == Init /\ [][MemberNext]_vars


(***************************************************************************)
(* Re-uploads: a file is uploaded more than once, with different contents, *)
(* while nodes register, heartbeat and expire; one download.  Every node's *)
(* service is listening from the start.                                    *)
(***************************************************************************)
ReuploadInit ==
    \E s0 \in 0..MaxSalt : \E r0 \in Replications :
        /\ salt = s0 /\ replication = r0 /\ now = 0
        /\ ring = EmptyRing
        /\ node_address = EmptyMap /\ node_last_heartbeat = EmptyMap
        /\ file_index = EmptyMap
        /\ metadata = save_metadata(EmptyMap, EmptyMap)
        /\ node_bind = [n \in NodeIds |-> CHOOSE a \in Addrs(n) : TRUE]
        /\ storage = [n \in NodeIds |-> EmptyMap]
        /\ up = IdleUpload /\ dl = IdleDownload
        /\ lookup = <<>> /\ reply = NoReply
        /\ env = [calm |-> FALSE, joined |-> FALSE]
        /\ restarts = 0 /\ stops = 0
        /\ lock = None /\ reg = IdleRegister /\ boot = NotBooted

ReuploadFiles ==
    {FileBytes(v, len) : v \in 1..MaxReuploads, len \in {1, ChunkSize + 1}}

ReuploadNext ==
    \/ \E n \in NodeIds : \E a \in Addrs(n) :
          RegisterNode(n, a) /\ UNCHANGED <<reply, lock, reg, boot>>
    \/ \E n \in NodeIds : Heartbeat(n) /\ UNCHANGED <<reply, lock, reg, boot>>
    \/ \E path \in Paths : \E data \in ReuploadFiles :
          /\ up.n < MaxReuploads
          /\ data[1] = 10 * (up.n + 1) + 1
          /\ UploadFile(path, data)
          /\ UNCHANGED <<reply, lock, reg, boot>>
    \/ \E n \in NodeIds : \E cid \in 0..MaxFileLen :
          StoreToNode(n, cid) /\ UNCHANGED <<reply, lock, reg, boot>>
    \/ UploadFinish /\ UNCHANGED <<reply, lock, reg, boot>>
    \/ \E f \in FileNames : DownloadFile(f) /\ UNCHANGED <<reply, lock, reg, boot>>
    \/ DownloadCandidates /\ UNCHANGED <<reply, lock, reg, boot>>
    \/ DownloadPick /\ UNCHANGED <<reply, lock, reg, boot>>
    \/ DownloadFetch /\ UNCHANGED <<reply, lock, reg, boot>>
    \/ Tick /\ UNCHANGED <<reply, lock, reg, boot>>

ReuploadSpec == ReuploadInit /\ [][ReuploadNext]_vars

(***************************************************************************)
(* The coordinator lock.  RegisterNode runs statement by statement inside  *)
(* its `with self._lock` block; the other handlers' locked blocks are      *)
(* single steps that need the lock free, and what the code does outside    *)
(* a locked block (the ring lookup of DownloadFile, store_to_node, the     *)
(* GetChunk call) needs no lock.  The clock stands still and every node's  *)
(* service is listening.                                                   *)
(***************************************************************************)
RegFrame ==
    /\ UNCHANGED <<salt, now, replication, file_index, node_bind, storage,
                   up, dl, lookup, reply, restarts, stops, boot>>
    /\ env' = Observed(env)

\* RegisterNode: `with self._lock:` is entered
RegBegin(node_id, address) ==
    /\ lock = None
    /\ lock' = "RegisterNode"
    /\ reg' = [pc |-> "address", node_id |-> node_id, address |-> address, i |-> 0]
    /\ UNCHANGED <<ring, node_address, node_last_heartbeat, metadata>>
    /\ RegFrame

\* self._node_address[request.node_id] = request.address
RegSetAddress ==
    /\ reg.pc = "address"
    /\ node_address' = Put(node_address, reg.node_id, reg.address)
    /\ reg' = [reg EXCEPT !.pc = "heartbeat"]
    /\ UNCHANGED <<ring, node_last_heartbeat, metadata, lock>>
    /\ RegFrame

\* self._node_last_heartbeat[request.node_id] = time.time(), and the test
\* `request.node_id not in self._ring.nodes()`
RegSetHeartbeat ==
    /\ reg.pc = "heartbeat"
    /\ node_last_heartbeat' = Put(node_last_heartbeat, reg.node_id, now)
    /\ reg' = [reg EXCEPT !.pc = IF reg.node_id \in nodes(ring)
                                  THEN "save" ELSE "append"]
    /\ UNCHANGED <<ring, node_address, metadata, lock>>
    /\ RegFrame

\* add_node: one round of the loop, self._ring.append((h, node_id))
RegAppend ==
    /\ reg.pc = "append"
    /\ ring' = [ring EXCEPT !.ring =
                   Append(@, <<hash_key(<<reg.node_id, reg.i>>), reg.node_id>>)]
    /\ reg' = [reg EXCEPT !.i = @ + 1,
                          !.pc = IF reg.i + 1 = VirtualPoints THEN "sort" ELSE "append"]
    /\ UNCHANGED <<node_address, node_last_heartbeat, metadata, lock>>
    /\ RegFrame

\* add_node: self._ring.sort(...) and self._nodes[node_id] = points
RegSort ==
    /\ reg.pc = "sort"
    /\ ring' = [ring |-> SortByHash(ring.ring),
                nodes |-> Put(ring.nodes, reg.node_id,
                              [i \in 1..VirtualPoints |->
                                  hash_key(<<reg.node_id, i - 1>>)])]
    /\ reg' = [reg EXCEPT !.pc = "save"]
    /\ UNCHANGED <<node_address, node_last_heartbeat, metadata, lock>>
    /\ RegFrame

\* self._save_metadata(), and the lock is released
RegSave ==
    /\ reg.pc = "save"
    /\ metadata' = save_metadata(node_address, file_index)
    /\ reg' = IdleRegister
    /\ lock' = None
    /\ UNCHANGED <<ring, node_address, node_last_heartbeat>>
    /\ RegFrame

LockOthers == UNCHANGED <<reply, lock, reg, boot>>

\* a handler enters one of its `with self._lock:` blocks
Acquire(handler) ==
    /\ lock = None
    /\ lock' = handler
    /\ UNCHANGED <<salt, now, replication, ring, node_address, node_last_heartbeat,
                   file_index, metadata, node_bind, storage, up, dl, lookup,
                   reply, env, restarts, stops, reg, boot>>

\* UploadFile reaches its placement block (a request with chunks) or its
\* final block (the pool is done)
UploadAcquire ==
    /\ \/ up.pc = "idle" /\ up.n < MaxUploads
       \/ up.pc = "fanout" /\ up.pending = {}
    /\ Acquire("UploadFile")

\* UploadFile returns "no data" before it takes the lock
UploadNoData(path, data) ==
    /\ up.n < MaxUploads
    /\ stream_file_chunks(path, data, ChunkSize) = <<>>
    /\ UploadFile(path, data)
    /\ LockOthers

\* the placement block of UploadFile, left by a return or at its end
UploadPlaceLocked(path, data) ==
    /\ lock = "UploadFile"
    /\ stream_file_chunks(path, data, ChunkSize) # <<>>
    /\ UploadFile(path, data)
    /\ lock' = None
    /\ UNCHANGED <<reply, reg, boot>>

\* the final block of UploadFile
UploadFinishLocked ==
    /\ lock = "UploadFile"
    /\ UploadFinish
    /\ lock' = None
    /\ UNCHANGED <<reply, reg, boot>>

\* DownloadFile reaches its first block or the block of one candidate
DownloadAcquire ==
    /\ \/ dl.pc \notin Active /\ dl.n < MaxDownloads
       \/ dl.pc = "cand"
    /\ Acquire("DownloadFile")

\* the first block of DownloadFile, left by an abort or at its end
DownloadFileLocked(filename) ==
    /\ lock = "DownloadFile"
    /\ DownloadFile(filename)
    /\ lock' = None
    /\ UNCHANGED <<reply, reg, boot>>

\* Variant of the candidate's block that is still open when GetChunk is
\* called (C19 rejects it).
DownloadPickLocked_open ==
    /\ lock = "DownloadFile"
    /\ DownloadPick
    /\ lock' = IF dl'.pc = "fetch" THEN lock ELSE None
    /\ UNCHANGED <<reply, reg, boot>>

\* the block of one candidate, left by `continue` or at its end
DownloadPickLocked ==
    /\ lock = "DownloadFile"
    /\ DownloadPick
    /\ lock' = None
    /\ UNCHANGED <<reply, reg, boot>>

LockNext ==
    \/ \E n \in NodeIds : \E a \in MemberAddrs(n) : RegBegin(n, a)
    \/ RegSetAddress
    \/ RegSetHeartbeat
    \/ RegAppend
    \/ RegSort
    \/ RegSave
    \/ \E n \in NodeIds : lock = None /\ Heartbeat(n) /\ LockOthers
    \/ UploadAcquire
    \/ \E path \in Paths : \E data \in Files : UploadNoData(path, data)
    \/ \E path \in Paths : \E data \in Files : UploadPlaceLocked(path, data)
    \/ \E n \in NodeIds : \E cid \in 0..MaxFileLen : StoreToNode(n, cid) /\ LockOthers
    \/ UploadFinishLocked
    \/ DownloadAcquire
    \/ \E f \in FileNames : DownloadFileLocked(f)
    \/ DownloadCandidates /\ LockOthers
    \/ DownloadPickLocked
    \/ DownloadFetch /\ LockOthers

LockSpec == ReuploadInit /\ [][LockNext]_vars

(***************************************************************************)
(* A storage node process, serve() of node_server.py: the registration     *)
(* loop, the start of the service and the heartbeat thread, against a      *)
(* coordinator whose clock advances and which may restart.  boot.t is the  *)
(* node's time.time() since serve() began; time passes there during the    *)
(* RegisterNode calls and the sleeps.                                      *)
(***************************************************************************)
CoordFrame ==
    UNCHANGED <<salt, now, replication, ring, node_address, node_last_heartbeat,
                file_index, metadata, node_bind, storage, up, dl, lookup, env,
                restarts, stops>>

\* serve(node_id, bind, master_addr) is entered
Launch(node_id, bind) ==
    /\ boot.pc = "off"
    /\ boot' = [NotBooted EXCEPT !.pc = "loop", !.node_id = node_id, !.bind = bind,
                                 !.deadline = RegisterWindow]
    /\ CoordFrame /\ UNCHANGED <<reply, lock, reg>>

\* while time.time() < register_deadline
BootLoopTest ==
    /\ boot.pc = "loop"
    /\ boot' = [boot EXCEPT !.pc = IF boot.t < boot.deadline THEN "call" ELSE "check"]
    /\ CoordFrame /\ UNCHANGED <<reply, lock, reg>>

\* one attempt: stub.RegisterNode(...) takes d seconds and either returns the
\* coordinator's Ack or raises (the coordinator cannot be reached)
BootCall(d, reached) ==
    /\ boot.pc = "call"
    /\ IF reached
       THEN /\ RegisterNode(boot.node_id, boot.bind)
            /\ boot' = IF RegisterNodeAck(boot.node_id, boot.bind).success
                       THEN [boot EXCEPT !.t = @ + d, !.acked = TRUE, !.pc = "check"]
                       ELSE [boot EXCEPT !.t = @ + d, !.last_error = "RuntimeError",
                                         !.pc = "sleep"]
       ELSE /\ CoordFrame
            /\ boot' = [boot EXCEPT !.t = @ + d, !.last_error = "RpcError",
                                    !.pc = "sleep"]
    /\ UNCHANGED <<reply, lock, reg>>

\* time.sleep(1.0)
BootSleep ==
    /\ boot.pc = "sleep"
    /\ boot' = [boot EXCEPT !.t = @ + RetrySleep, !.pc = "loop"]
    /\ CoordFrame /\ UNCHANGED <<reply, lock, reg>>

\* if time.time() >= register_deadline and last_error is not None: raise;
\* otherwise server.start() and the heartbeat thread
BootCheck ==
    /\ boot.pc = "check"
    /\ IF boot.t >= boot.deadline /\ boot.last_error # None
       THEN /\ boot' = [boot EXCEPT !.pc = "raised"]
            /\ CoordFrame
       ELSE /\ boot' = [boot EXCEPT !.pc = "serving"]
            /\ NodeStart(boot.node_id, boot.bind)
    /\ UNCHANGED <<reply, lock, reg>>

\* start_heartbeat: one round of the loop; the Ack is not looked at
Beat ==
    /\ boot.pc = "serving"
    /\ Heartbeat(boot.node_id)
    /\ reply' = Replied("Heartbeat", boot.node_id, Down, HeartbeatAck(boot.node_id))
    /\ UNCHANGED <<lock, reg, boot>>

NodeNext ==
    \/ \E n \in NodeIds : \E a \in Addrs(n) : Launch(n, a)
    \/ BootLoopTest
    \/ \E d \in 0..MaxCallTime : \E reached \in BOOLEAN : BootCall(d, reached)
    \/ BootSleep
    \/ BootCheck
    \/ Beat
    \/ \E found \in {"intact", "absent", "corrupt"} :
          Restart(found) /\ reply' = NoReply /\ UNCHANGED <<lock, reg, boot>>
    \/ Tick /\ reply' = NoReply /\ UNCHANGED <<lock, reg, boot>>

\* the heartbeat thread keeps running
NodeSpec == Init /\ [][NodeNext]_vars /\ WF_vars(Beat)

(***************************************************************************)
(* Properties                                                              *)
(***************************************************************************)
Finished(d) == d.pc \in {"done", "aborted"}
Registered == DOMAIN node_address
AllReachable == \A n \in Registered : Reachable(node_bind, n, node_address[n])
Last(s) == s[Len(s)]
Range(s) == {s[i] : i \in DOMAIN s}

\* the step computes an upload's placement / starts a download's chunk loop /
\* picks a download's candidate for a GetChunk call
PlacementStep == up.pc = "idle" /\ up'.pc = "fanout"
DownloadStartStep == dl.pc \notin Active /\ dl'.pc \in Active
PickStep == dl.pc = "cand" /\ dl'.pc = "fetch"

\* the nodes whose last heartbeat is at most HeartbeatWindow seconds old
Fresh == {n \in DOMAIN node_last_heartbeat :
             now - node_last_heartbeat[n] <= HeartbeatWindow}
Expired == Registered \ Fresh

\* A download of the uploaded file has ended; it began after the upload
\* returned "ok"; since the upload's placement every registered node stayed
\* live and kept its reachability, every registered node is reachable, and
\* the coordinator lost nothing.
RoundTripCase ==
    /\ Finished(dl) /\ dl.follows
    /\ up.status = "ok" /\ up.data # <<>>
    /\ dl.filename = up.filename
    /\ env.calm /\ AllReachable

\* C1 as stated: round trip for non-empty files.  Whenever a non-empty file
\* was uploaded with status "ok" and then downloaded by its base name, while
\* the storage nodes stayed live and reachable, the download completes and
\* the concatenation of the streamed payloads equals the uploaded bytes.
C1_RoundTrip_AsStated ==
    RoundTripCase => (dl.pc = "done" /\ Join(dl.out) = up.data)

\* C1, amended: the round trip of C1 holds when, in addition, no node joined
\* the ring between the upload's placement and the end of the download.
C1_RoundTrip ==
    (RoundTripCase /\ ~env.joined) => (dl.pc = "done" /\ Join(dl.out) = up.data)

C1_Witness ==
    /\ RoundTripCase /\ ~env.joined
    /\ dl.pc = "done"
    /\ up.total_chunks = 2 /\ Len(up.data) = ChunkSize + 1
    /\ Len(dl.out) = 2

\* C2 as stated: round trip for the empty file.  After the client's upload
\* of a 0-byte file, with a registered node and every registered node live
\* and reachable, a download by the base name completes normally and yields
\* zero bytes.
C2_EmptyRoundTrip ==
    ( /\ Finished(dl) /\ dl.follows
      /\ up.n > 0 /\ up.data = <<>>
      /\ dl.filename = basename(<<"d", "f">>)
      /\ Registered # {}
      /\ AllLive(node_address, node_last_heartbeat, now)
      /\ AllReachable )
    => (dl.pc = "done" /\ Join(dl.out) = <<>>)

\* C11 as stated: latest completed upload wins.  When the latest upload of
\* a file returned "ok" and a download of the file began afterwards, every
\* chunk the download streams carries the payload that upload sent for the
\* chunk's index.
C11_LatestWins ==
    ( /\ up.status = "ok" /\ dl.follows
      /\ dl.filename = up.filename )
    => \A i \in DOMAIN dl.out :
          /\ dl.out[i].chunk_id + 1 \in DOMAIN up.chunks
          /\ dl.out[i].data = up.chunks[dl.out[i].chunk_id + 1].data

\* the step is DownloadFile's ring lookup for a chunk / a store_to_node call,
\* which reads the node's address
RingReadStep == dl.pc = "chunk" /\ dl' # dl
AddressReadStep == up.pc = "fanout" /\ up'.pending # up.pending

\* C12 as stated: lock coverage.  Whenever a handler reads the ring or the
\* address map, it does so holding the coordinator lock: no RegisterNode is
\* inside its locked block, in the middle of changing them, at that moment.
C12_LockCoverage ==
    [][(RingReadStep \/ AddressReadStep) => lock # "RegisterNode"]_vars

\* C13 as stated: storage-node startup.  The node ends up serving exactly
\* when one of its RegisterNode attempts returned a successful
\* acknowledgement, and ends by raising exactly when none did: a node that
\* received a successful acknowledgement never raises.
C13_Startup ==
    /\ boot.pc = "serving" => boot.acked
    /\ boot.pc = "raised" => ~boot.acked

\* C14 as stated: liveness recovery.  A storage node that is serving, whose
\* heartbeat thread keeps calling the coordinator, is eventually treated as
\* live by the coordinator, whatever restarts the coordinator went through.
C14_Recovery ==
    [](boot.pc = "serving" => <>(boot.node_id \in Fresh))

\* the walk the ring is described by: start at the first entry whose hash is
\* strictly greater than the key's hash, or at the first entry when there is
\* none (0-based position)
StrictSuccessor(r, key) ==
    LET after == {i \in DOMAIN r.ring : r.ring[i][1] > hash_key(key)}
    IN  IF after = {} THEN 0
        ELSE (CHOOSE i \in after : \A j \in after : i <= j) - 1

ReferenceWalk(r, key, count) ==
    Walk(r, Min(count, Cardinality(DOMAIN r.nodes)), StrictSuccessor(r, key), <<>>, 0)

\* C15 as stated: ring walk order.  On a non-empty ring every lookup returns
\* what the walk from the first entry with a strictly greater hash returns,
\* also for a key whose hash is the hash of a virtual point.
C15_WalkOrder ==
    (lookup # <<>> /\ ring.ring # <<>>)
    => lookup[1].result = ReferenceWalk(ring, lookup[1].key, lookup[1].count)

\* the (node, chunk) pairs an upload's placement chose
Placed(u) ==
    UNION {{<<u.placements[cid][j], cid>> : j \in DOMAIN u.placements[cid]} :
           cid \in DOMAIN u.placements}

\* C16 as stated: placement snapshot.  Where the chunks of one UploadFile
\* request are sent is fixed by one state of the coordinator: every
\* StoreChunk call of the request goes to a replica the placement chose, and
\* the calls to one node all go to one address of it, so that a concurrent
\* RegisterNode cannot redirect only some of the request's chunks.
C16_Snapshot_AsStated ==
    up.pc = "fanout"
    => /\ \A x \in up.sent : <<x.node_id, x.chunk_id>> \in Placed(up)
       /\ \A x, y \in up.sent : x.node_id = y.node_id => x.address = y.address

\* C16, amended: the replica node identifiers of all chunks of one request
\* are computed in one step, taken inside the request's locked block, from one ring and one
\* set of live nodes; the placement does not change during the fan-out,
\* whatever registers or heartbeats meanwhile, and every StoreChunk call goes
\* to a replica the placement chose, each chosen replica being called once.
\* Only the address of a call is read when the call is made.
C16_Snapshot ==
    /\ [][PlacementStep =>
            /\ lock = "UploadFile" /\ lock' = None
            /\ UNCHANGED <<ring, node_address, node_last_heartbeat, now>>
            /\ \A cid \in DOMAIN up'.placements :
                  up'.placements[cid] =
                      SelectSeq(get_nodes_for_key(ring, <<up'.filename, cid>>, replication),
                                LAMBDA n : n \in Fresh)]_vars
    /\ [][(up.pc = "fanout" /\ up'.pc = "fanout")
            => up'.placements = up.placements]_vars
    /\ [](up.pc = "fanout" =>
            /\ up.pending \cup {<<x.node_id, x.chunk_id>> : x \in up.sent} = Placed(up)
            /\ \A x \in up.sent : <<x.node_id, x.chunk_id>> \notin up.pending)
    /\ [][\A x \in up'.sent \ up.sent : x.address = node_address[x.node_id]]_vars

\* a RegisterNode is inside its locked block in the middle of a fan-out, and
\* the ring already holds a node the request's placement did not see
C16_Witness ==
    /\ up.pc = "fanout" /\ up.sent # {} /\ up.pending # {}
    /\ lock = "RegisterNode"
    /\ \E n \in nodes(ring) : \A t \in Placed(up) : t[1] # n
    /\ replication = 2

\* C17: file index ordering.  The file index and the files of the metadata
\* document change only in the step of an upload that comes after every
\* StoreChunk call its placement asked for has been made, and that step
\* writes the upload's total chunk count under its filename and saves; a
\* DownloadFile that finds no entry aborts with NOT_FOUND and streams
\* nothing; while no upload has completed there is no entry, and after an
\* upload completed the entry holds its total chunk count.
C17_IndexOrdering ==
    /\ [][(file_index' # file_index \/ metadata'.files # metadata.files)
            => /\ up.pc = "fanout" /\ up.pending = {}
               /\ {<<x.node_id, x.chunk_id>> : x \in up.sent} = Placed(up)
               /\ up'.status = "ok"
               /\ file_index' = Put(file_index, up.filename,
                                    [total_chunks |-> up.total_chunks])
               /\ json_loads(metadata').files = file_index']_vars
    /\ [][(dl'.n # dl.n /\ ~Has(file_index, dl'.filename))
            => /\ dl'.pc = "aborted" /\ dl'.code = "NOT_FOUND"
               /\ dl'.out = <<>>]_vars
    /\ []((up.n = 0 \/ (up.n = 1 /\ up.status # "ok")) => file_index = EmptyMap)
    /\ [](up.status = "ok"
            => /\ Has(file_index, up.filename)
               /\ file_index[up.filename] = [total_chunks |-> up.total_chunks])

\* a download of the file aborted with NOT_FOUND while the file's first
\* upload is in the middle of its fan-out
C17_Witness ==
    /\ up.n = 1 /\ up.pc = "fanout" /\ up.sent # {} /\ up.pending # {}
    /\ dl.pc = "aborted" /\ dl.code = "NOT_FOUND" /\ dl.filename = up.filename

Rejections == {"no data", "no live nodes", "no live nodes for chunk"}

\* the step is an UploadFile call that returns at once
RejectStep == up'.n # up.n /\ up'.pc = "idle"

\* C18: rejected uploads change nothing.  An UploadFile call that does not
\* reach the fan-out returns one of the three status messages, each for its
\* own reason; no StoreChunk call is made for it, and the file index, the
\* address and heartbeat maps, the ring, the metadata document and the
\* nodes' chunks are as they were.  Every other call places all its chunks.
C18_RejectedUpload ==
    /\ [][RejectStep =>
            /\ up'.status \in Rejections
            /\ up'.sent = {} /\ up'.pending = {} /\ up'.placements = EmptyMap
            /\ UNCHANGED <<file_index, node_address, node_last_heartbeat, ring,
                           metadata, storage>>
            /\ up'.status = "no data" <=> up'.chunks = <<>>
            /\ up'.status = "no live nodes" <=> (up'.chunks # <<>> /\ Fresh = {})
            /\ up'.status = "no live nodes for chunk" =>
                  \E i \in DOMAIN up'.chunks :
                      \A n \in Range(get_nodes_for_key(ring,
                                        <<up'.chunks[i].filename, up'.chunks[i].chunk_id>>,
                                        replication)) : n \notin Fresh]_vars
    /\ [][PlacementStep =>
            /\ up'.status = None
            /\ \A i \in DOMAIN up'.chunks :
                  up'.placements[up'.chunks[i].chunk_id] # <<>>]_vars
    /\ [](up.status \in Rejections => (up.pc = "idle" /\ up.sent = {}))

\* an upload was rejected with "no live nodes for chunk" although a node is
\* live, and the file index and the nodes' chunks are empty
C18_Witness ==
    /\ up.status = "no live nodes for chunk"
    /\ Fresh # {} /\ Expired # {}
    /\ file_index = EmptyMap
    /\ \A n \in NodeIds : storage[n] = EmptyMap

\* the step is a StoreChunk call of the upload / the GetChunk call of the
\* download
SendStep == up'.sent # up.sent /\ up'.sent # {}
FetchStep == dl.pc = "fetch" /\ dl' # dl

\* C19: no network call under the lock.  UploadFile does not hold the lock
\* when one of its StoreChunk calls is made or outstanding, nor DownloadFile
\* when its GetChunk call is; whoever holds the lock is inside a locked
\* block, which it leaves without a network call, so that a RegisterNode
\* that holds the lock during a fan-out or a fetch goes through its block.
C19_NoCallUnderLock ==
    /\ [][SendStep => lock # "UploadFile"]_vars
    /\ [][FetchStep => lock # "DownloadFile"]_vars
    /\ []((up.pc = "fanout" /\ up.pending # {}) => lock # "UploadFile")
    /\ [](dl.pc \in {"chunk", "fetch"} => lock # "DownloadFile")
    /\ [](lock = "RegisterNode" <=> reg.pc # "idle")
    /\ [][(lock = "RegisterNode" /\ reg' # reg) => (up' = up /\ dl' = dl)]_vars

\* a RegisterNode is at the end of its locked block while the GetChunk call
\* of a download that has streamed a chunk already is outstanding
C19_Witness ==
    /\ lock = "RegisterNode" /\ reg.pc = "save"
    /\ dl.pc = "fetch" /\ dl.out # <<>>

\* C20: download order.  The chunks one DownloadFile call has streamed carry
\* the indices 0, 1, ..., k-1 in this order, k being at most the total chunk
\* count T the call read from the file index; the call ends normally with
\* k = T and aborts with k < T (with nothing streamed when it aborts before
\* its loop).  A chunk is streamed by the GetChunk step only, which then
\* leaves the index; the candidates of an index are the ring's list for its
\* key, and they are taken up one after the other, a later one only when
\* every earlier one was skipped as not live or failed its call.
C20_DownloadOrder ==
    /\ [](/\ \A i \in DOMAIN dl.out : dl.out[i].chunk_id = i - 1
          /\ Len(dl.out) <= dl.total_chunks)
    /\ [](/\ dl.pc = "done" => Len(dl.out) = dl.total_chunks
          /\ (dl.pc = "aborted" /\ dl.code \in {"UNAVAILABLE", "CONNECTION_LOST"})
                => Len(dl.out) < dl.total_chunks
          /\ (dl.pc = "aborted" /\ dl.code \in {"NOT_FOUND", "FAILED_PRECONDITION"})
                => dl.out = <<>>)
    /\ [][(dl'.n = dl.n /\ dl'.out # dl.out)
            => /\ FetchStep
               /\ Len(dl'.out) = Len(dl.out) + 1
               /\ SubSeq(dl'.out, 1, Len(dl.out)) = dl.out
               /\ Last(dl'.out).chunk_id = dl.cid
               /\ dl'.cid = dl.cid + 1
               /\ dl'.pc = IF dl'.cid = dl.total_chunks THEN "done" ELSE "chunk"]_vars
    /\ [][(dl.pc = "chunk" /\ dl'.n = dl.n /\ dl'.node_ids # dl.node_ids)
            => dl'.node_ids =
                  get_nodes_for_key(ring, <<dl.filename, dl.cid>>, replication)]_vars
    /\ [][(dl.pc \in {"cand", "fetch"} /\ dl'.n = dl.n)
            => /\ dl'.cid = dl.cid => dl'.node_ids = dl.node_ids
               /\ (dl'.cid = dl.cid /\ dl'.k # dl.k)
                    => (dl'.k = dl.k + 1 /\ dl'.out = dl.out)]_vars
    /\ [](dl.pc \in {"cand", "fetch"} =>
            /\ dl.k \in 1..Len(dl.node_ids)
            /\ \A j \in 1..(dl.k - 1) :
                  dl.node_ids[j] \notin dl.live_nodes \/ dl.node_ids[j] \in dl.failed)

\* a download of a file of two chunks ended normally, the last chunk coming
\* from the second candidate of its key after the first one failed its call
C20_Witness ==
    /\ dl.pc = "done" /\ dl.total_chunks = 2 /\ Len(dl.out) = 2
    /\ Len(dl.node_ids) = 2 /\ dl.k = 2
    /\ dl.node_ids[1] \in dl.failed

\* the candidates of the current chunk that the download counts as live
LiveCandidates(d) == {n \in Range(d.node_ids) : n \in d.live_nodes}

\* C3: download failover.  A download aborts at a chunk index only when
\* every live candidate of the ring-derived order was tried and failed its
\* GetChunk call (it was unreachable or lacked the chunk); so when an earlier
\* candidate fails and a later live one returns the chunk, the download goes
\* on, and the chunk streamed for the index is the one that candidate holds.
C3_Failover ==
    /\ [][(dl.pc \in Active /\ dl'.pc = "aborted" /\ dl'.code = "UNAVAILABLE")
            => LiveCandidates(dl') \subseteq dl'.failed]_vars
    /\ [][(dl.pc \in Active /\ dl'.failed # dl.failed /\ dl'.failed # {})
            => \A n \in dl'.failed \ dl.failed :
                  \/ ~Reachable(node_bind, n, dl.address)
                  \/ ~Has(storage[n], chunk_path(dl.filename, dl.cid))]_vars
    /\ [][(dl.pc \in Active /\ dl'.cid # dl.cid)
            => LET n == dl.node_ids[dl.k]
               IN  /\ dl'.cid = dl.cid + 1
                   /\ n \in dl.live_nodes
                   /\ dl'.out = Append(dl.out, Last(dl'.out))
                   /\ Last(dl'.out).chunk_id = dl.cid
                   /\ Last(dl'.out).data =
                          storage[n][chunk_path(dl.filename, dl.cid)]
                   /\ \A j \in 1..(dl.k - 1) :
                          \/ dl.node_ids[j] \in dl.failed
                          \/ dl.node_ids[j] \notin dl.live_nodes]_vars

C3_Witness ==
    /\ dl.pc \in {"chunk", "done"}
    /\ dl.out # <<>>
    /\ dl.k = 2
    /\ dl.node_ids[1] \in dl.failed
    /\ dl.node_ids[2] \in dl.live_nodes
    /\ Last(dl.out).data = storage[dl.node_ids[2]][chunk_path(dl.filename, dl.cid - 1)]

\* The case of C4: replication factor 2, the upload returned "ok", some
\* registered node is unreachable, every chunk has a reachable candidate,
\* and a download that followed the upload has ended.
BestEffortCase ==
    /\ Finished(dl) /\ dl.follows
    /\ up.status = "ok" /\ up.data # <<>>
    /\ dl.filename = up.filename
    /\ replication = 2
    /\ env.calm /\ ~env.joined
    /\ \E n \in Registered : ~Reachable(node_bind, n, node_address[n])
    /\ \A cid \in 0..(up.total_chunks - 1) :
          \E n \in Range(get_nodes_for_key(ring, <<up.filename, cid>>, replication)) :
              Reachable(node_bind, n, node_address[n])

\* C4: best-effort upload.  Once the placement is computed, UploadFile
\* ends with status "ok" and the file recorded in the file index with its
\* chunk count, whatever the StoreChunk calls did; and with replication
\* factor 2 and one replica unreachable, a following download returns the
\* uploaded bytes from the surviving replica.
C4_BestEffort ==
    /\ [][(up.pc = "fanout" /\ up'.pc # "fanout" /\ restarts' = restarts)
            => /\ up'.status = "ok"
               /\ Has(file_index', up.filename)
               /\ file_index'[up.filename].total_chunks = up.total_chunks]_vars
    /\ [](BestEffortCase => (dl.pc = "done" /\ Join(dl.out) = up.data))

C4_Witness ==
    /\ BestEffortCase
    /\ dl.pc = "done"
    /\ dl.failed # {}
    /\ \A n \in dl.failed : ~Reachable(node_bind, n, node_address[n])

\* C5: exhausted replicas.  A download that aborts with UNAVAILABLE names
\* the chunk index it failed at; what it streamed is exactly the chunks
\* below that index, and nothing is streamed after the abort.  Until then
\* the chunks streamed are those below the index the download is at.
C5_Exhausted ==
    /\ []( (dl.pc = "aborted" /\ dl.code = "UNAVAILABLE")
            => /\ dl.detail = Detail("chunk unavailable", dl.cid)
               /\ dl.cid < dl.total_chunks )
    /\ []( (dl.pc \in Active \/ Finished(dl))
            => /\ Len(dl.out) = dl.cid
               /\ \A i \in 1..Len(dl.out) : dl.out[i].chunk_id = i - 1 )
    /\ []( dl.pc = "done" => Len(dl.out) = dl.total_chunks )
    /\ [][(dl.pc = "aborted" /\ dl'.n = dl.n)
            => (dl'.pc = "aborted" /\ dl'.out = dl.out /\ dl'.cid = dl.cid)]_vars

C5_Witness ==
    /\ dl.pc = "aborted" /\ dl.code = "UNAVAILABLE"
    /\ dl.cid = 1 /\ Len(dl.out) = 1
    /\ dl.detail = Detail("chunk unavailable", 1)
    /\ LiveCandidates(dl) # {}

\* C6 as stated: liveness expiry.  A registered node whose last heartbeat
\* is more than 10.0 seconds old is never tried as a GetChunk candidate by a
\* download.
C6_Expiry_AsStated ==
    [][PickStep => dl.node_ids[dl.k] \in Fresh]_vars

\* C6, amended: liveness is evaluated when a request computes its live set,
\* once per upload placement and once at the start of a download.  A placement
\* holds, for every chunk, exactly the ring candidates whose heartbeat is at
\* most 10.0 seconds old then, and StoreChunk goes only to placed nodes; a
\* download tries exactly the candidates that were that fresh when it started;
\* an expired node keeps its address and ring entries; and a Heartbeat or
\* RegisterNode for a node makes it fresh for the requests that follow.
C6_Expiry ==
    /\ [][PlacementStep =>
            \A cid \in DOMAIN up'.placements :
                up'.placements[cid] =
                    SelectSeq(get_nodes_for_key(ring, <<up'.filename, cid>>, replication),
                              LAMBDA n : n \in Fresh)]_vars
    /\ [](up.pc = "fanout" =>
            \A t \in up.pending : t[1] \in Range(up.placements[t[2]]))
    /\ [][DownloadStartStep => dl'.live_nodes = Fresh]_vars
    /\ [][PickStep => dl.node_ids[dl.k] \in dl.live_nodes]_vars
    /\ [][(dl.pc = "cand" /\ dl.node_ids[dl.k] \in dl.live_nodes
             /\ (dl'.pc # dl.pc \/ dl'.k # dl.k) /\ restarts' = restarts)
            => PickStep]_vars
    /\ [](/\ nodes(ring) = Registered
          /\ DOMAIN node_last_heartbeat = Registered)
    /\ [][\A n \in DOMAIN node_last_heartbeat' :
            (\/ n \notin DOMAIN node_last_heartbeat
             \/ node_last_heartbeat'[n] # node_last_heartbeat[n])
            => node_last_heartbeat'[n] = now']_vars

C6_Witness ==
    /\ up.pc = "fanout"
    /\ \E n \in Expired :
          /\ n \in Range(get_nodes_for_key(ring, <<up.filename, 0>>, replication))
          /\ \A cid \in DOMAIN up.placements : n \notin Range(up.placements[cid])
    /\ \E n \in Fresh : now - node_last_heartbeat[n] = HeartbeatWindow

\* C7: ring membership correctness.  For every ring reached by add_node and
\* remove_node calls, with registered node set N, and every key and count,
\* get_nodes_for_key terminates and returns exactly min(count, |N|)
\* identifiers, pairwise distinct and all in N (none when the ring is empty).
RingResultOk(r, result, count) ==
    /\ result # <<"DIVERGES">>
    /\ Len(result) = Min(count, Cardinality(nodes(r)))
    /\ \A i \in DOMAIN result : result[i] \in nodes(r)
    /\ \A i, j \in DOMAIN result : i # j => result[i] # result[j]
    /\ (r.ring = <<>> => result = <<>>)

C7_RingMembership ==
    /\ \A key \in RingKeys : \A count \in 0..MaxCount :
          RingResultOk(ring, get_nodes_for_key(ring, key, count), count)
    /\ lookup # <<>> => RingResultOk(ring, lookup[1].result, lookup[1].count)
    /\ (ring.ring = <<>>) = (nodes(ring) = {})

C7_Witness ==
    /\ lookup # <<>>
    /\ Cardinality(nodes(ring)) = 2
    /\ lookup[1].count = 3
    /\ Len(lookup[1].result) = 2
    /\ lookup[1].result[1] # lookup[1].result[2]

\* C8: metadata durability.  While no restart has followed an upload that
\* returned "ok", the file index holds the file with its chunk count; and a
\* restart that finds the metadata document as it was left gives the
\* coordinator the same file index and the same node addresses, with every
\* such node back in the ring.
C8_Durability ==
    /\ []( (up.status = "ok" /\ up.epoch = restarts)
            => /\ Has(file_index, up.filename)
               /\ file_index[up.filename].total_chunks = up.total_chunks )
    /\ [][(restarts' # restarts /\ metadata' = metadata)
            => /\ file_index' = file_index
               /\ node_address' = node_address
               /\ nodes(ring') = DOMAIN node_address]_vars

C8_Witness ==
    /\ up.status = "ok" /\ restarts > up.epoch
    /\ Has(file_index, up.filename)
    /\ file_index[up.filename].total_chunks = up.total_chunks
    /\ up.total_chunks = 2
    /\ Registered # {}

\* C9: unknown-node heartbeat.  A Heartbeat for a node id that is not
\* registered returns Ack(false, "unknown node") and leaves the address map,
\* the heartbeat map, the ring, the file index and the metadata document as
\* they were; a Heartbeat for a registered node returns Ack(true, "ok") and
\* changes only that node's heartbeat timestamp, which becomes the current
\* time.
C9_UnknownHeartbeat ==
    [][reply'.rpc = "Heartbeat" =>
         LET n == reply'.node_id
         IN  /\ UNCHANGED <<node_address, ring, file_index, metadata, storage>>
             /\ IF n \in Registered
                THEN /\ reply'.ack = Ack(TRUE, "ok")
                     /\ node_last_heartbeat' =
                            [node_last_heartbeat EXCEPT ![n] = now]
                ELSE /\ reply'.ack = Ack(FALSE, "unknown node")
                     /\ node_last_heartbeat' = node_last_heartbeat]_vars

C9_Witness ==
    /\ reply.rpc = "Heartbeat"
    /\ reply.ack = Ack(FALSE, "unknown node")
    /\ reply.node_id \notin Registered
    /\ reply.node_id \notin DOMAIN node_last_heartbeat
    /\ Registered # {}

\* the entries of the ring's point list that belong to node x
PointsOf(r, x) == {i \in DOMAIN r.ring : r.ring[i][2] = x}

\* C10: idempotent registration.  add_node(x) on a ring that contains x
\* returns the ring unchanged; the ring holds exactly one set of R virtual
\* points for every registered node, however often it registered; and a
\* RegisterNode for a registered node changes only that node's address and
\* heartbeat timestamp.
C10_Idempotent ==
    /\ [](\A x \in nodes(ring) :
            /\ add_node(ring, x) = ring
            /\ Cardinality(PointsOf(ring, x)) = VirtualPoints
            /\ Len(ring.nodes[x]) = VirtualPoints)
    /\ [](Len(ring.ring) = VirtualPoints * Cardinality(nodes(ring)))
    /\ [][(reply'.rpc = "RegisterNode" /\ reply'.node_id \in Registered)
            => LET n == reply'.node_id
               IN  /\ UNCHANGED <<ring, file_index, storage>>
                   /\ node_address' = [node_address EXCEPT ![n] = reply'.address]
                   /\ node_last_heartbeat' =
                          [node_last_heartbeat EXCEPT ![n] = now]]_vars

C10_Witness ==
    /\ reply.rpc = "RegisterNode" /\ reply.known
    /\ node_address[reply.node_id] = <<reply.node_id, 2>>
    /\ Cardinality(PointsOf(ring, reply.node_id)) = VirtualPoints
    /\ Cardinality(Registered) = 2

=============================================================================
